---- MODULE Spec2Model ----
(***************************************************************************)
(* A model of nodes/nodestats.py (decredcommunity/network-stats): the      *)
(* aggregation of per-user-agent daily node counts into version groups and *)
(* the one-line distribution report.                                       *)
(*                                                                         *)
(* Numbers.  Python floats are modelled as exact rationals <<p, q>> in     *)
(* lowest terms (q > 0).  A rational stands for the IEEE double nearest to *)
(* it, which is what a literal such as 1.15 or the result of round() is.   *)
(* The only place where the difference between the rational and its double *)
(* is visible at the sizes used here is round() on a decimal tie (1.15 to  *)
(* one digit): BinErr computes on which side of the rational the double    *)
(* lies, and round breaks the tie the way CPython's correctly rounded      *)
(* round() does.  The arithmetic of the aggregation (mean, sum, ratio) is  *)
(* exact.                                                                  *)
(***************************************************************************)
EXTENDS Integers, Sequences, FiniteSets, TLC

VARIABLES
    pc,                 \* main(): the call that returned or raised last
    exc,                \* main(): "none", or the exception that ended the run
    dcrfarm_data,       \* main: the parsed response, a list of series
    ua_stats,           \* calc_node_stats: [[ua, daily_mean, daily_ratio], ...]
    daily_mean_sum,     \* calc_node_stats: the sum of the daily means
    tracked_ua_groups,  \* calc_node_group_stats: the loaded group definition
    ua_to_group,        \* calc_node_group_stats: the inverted lookup
    stats,              \* calc_node_group_stats: Stats(group_stats, untracked_ratio)
    output,             \* print_node_stats: the entries of the printed line
    f,                  \* concise_round: the argument of the first call
    results,            \* concise_round: the results of the successive calls
    md,                 \* inverse_multidict: the argument
    inverse,            \* inverse_multidict: the result
    now,                \* main: datetime.now(timezone.utc)
    args_month,         \* main: args.month, None or the month of "YYYYMM"
    mdate,              \* main: the month to report
    start_date,         \* main: the start of the interval
    end_date            \* main: the end of the interval

vars == <<pc, exc, dcrfarm_data, ua_stats, daily_mean_sum, tracked_ua_groups,
          ua_to_group, stats, output, f, results, md, inverse,
          now, args_month, mdate, start_date, end_date>>

-----------------------------------------------------------------------------
(* Bounds of the model.                                                    *)

\* concise_round is tried on every decimal 0 <= x <= MaxInput with at most
\* InputDigits decimal digits, and applied up to MaxCalls times in a row.
MaxInput == 7
InputDigits == 3
MaxCalls == 3

\* inverse_multidict is tried on every dict of at most MaxGroups keys, each
\* mapped to a list of at most MaxMembers elements.
MaxGroups == 2
MaxMembers == 2

\* the response holds, for each user agent, at most MaxDays daily counts, each
\* at most MaxCount
MaxDays == 2
MaxCount == 1

\* the user agents of the model
UAs == <<"ua1", "ua2", "ua3">>

\* the group names of the model: two dcrd groups, a dcrwallet group, a group
\* of neither family, and the empty name
GNames == <<"dcrd v1.5", "dcrd v1.4", "dcrwallet v1.5", "btcd", "">>

Range(s) == { s[i] : i \in 1 .. Len(s) }

-----------------------------------------------------------------------------
(* Exact rationals.                                                        *)

Abs(n) == IF n < 0 THEN -n ELSE n

RECURSIVE GCD(_, _)
GCD(a, b) == IF b = 0 THEN a ELSE GCD(b, a % b)

RECURSIVE Pow10(_)
Pow10(d) == IF d = 0 THEN 1 ELSE 10 * Pow10(d - 1)

\* p/q (q # 0) in lowest terms with a positive denominator
Rat(p, q) ==
    LET g == GCD(Abs(p), Abs(q))
        s == IF q < 0 THEN -1 ELSE 1
    IN  <<s * (p \div g), s * (q \div g)>>

Zero == <<0, 1>>
One == <<1, 1>>
RAdd(a, b) == Rat(a[1] * b[2] + b[1] * a[2], a[2] * b[2])
RSub(a, b) == Rat(a[1] * b[2] - b[1] * a[2], a[2] * b[2])
RMul(a, b) == Rat(a[1] * b[1], a[2] * b[2])
RDiv(a, b) == Rat(a[1] * b[2], a[2] * b[1])
RLess(a, b) == a[1] * b[2] < b[1] * a[2]
RLeq(a, b) == a[1] * b[2] <= b[1] * a[2]
RAbs(a) == <<Abs(a[1]), a[2]>>
IsInteger(a) == a[2] = 1

-----------------------------------------------------------------------------
(* The IEEE double nearest to a positive rational p/q: on which side of    *)
(* p/q it lies.  The binary expansion of p/q is produced by long division; *)
(* the double keeps 53 significant bits and rounds on the rest.            *)

RECURSIVE BitLen(_)
BitLen(n) == IF n = 0 THEN 0 ELSE 1 + BitLen(n \div 2)

\* the remainder after k more bits of the fraction r/q
RECURSIVE FracRem(_, _, _)
FracRem(r, q, k) ==
    IF k = 0 THEN r
    ELSE IF k >= 16 /\ q <= 32768
         THEN FracRem((65536 * r) % q, q, k - 16)   \* sixteen bits at once
         ELSE FracRem((2 * r) % q, q, k - 1)

\* the remainder of the fraction r/q (0 < r < q) after its 53 significant bits,
\* the first of which is its first 1 bit
RECURSIVE SigRem(_, _)
SigRem(r, q) ==
    IF 2 * r >= q THEN FracRem((2 * r) % q, q, 52) ELSE SigRem(2 * r, q)

\* 1: the double is above p/q, -1: below, 0: p/q is a double
BinErr(a) ==
    LET p == a[1]
        q == a[2]
        ip == p \div q
        r == p % q
        rest == IF r = 0 THEN 0
                ELSE IF ip = 0 THEN SigRem(r, q)
                ELSE FracRem(r, q, 53 - BitLen(ip))
    IN  IF rest = 0 THEN 0 ELSE IF 2 * rest > q THEN 1 ELSE -1

-----------------------------------------------------------------------------
(* Python's round(x, digits) of a float x >= 0: the multiple of            *)
(* 10^-digits nearest to the double, a tie going to the even multiple.  A  *)
(* decimal tie of the rational is a tie of the double only when the double *)
(* is the rational (10.5, 0.125); otherwise the double lies on one side.   *)

round_half_up(x, digits) ==
    LET n == x[1] * Pow10(digits)
        c == n \div x[2]
        r == n % x[2]
    IN  Rat(IF 2 * r >= x[2] THEN c + 1 ELSE c, Pow10(digits))

\* ties of the decimal go to even, whatever the double is
round_decimal(x, digits) ==
    LET n == x[1] * Pow10(digits)
        c == n \div x[2]
        r == n % x[2]
        up == IF 2 * r # x[2] THEN 2 * r > x[2] ELSE c % 2 = 1
    IN  Rat(IF up THEN c + 1 ELSE c, Pow10(digits))

round(x, digits) ==
    LET n == x[1] * Pow10(digits)
        c == n \div x[2]
        r == n % x[2]
        e == BinErr(x)
        up == IF 2 * r # x[2] THEN 2 * r > x[2]
              ELSE IF e # 0 THEN e > 0
              ELSE c % 2 = 1
    IN  Rat(IF up THEN c + 1 ELSE c, Pow10(digits))

-----------------------------------------------------------------------------
(* concise_round.  A call returns a value or raises.                       *)

Ok(v) == [exc |-> "none", val |-> v]
Raise(e) == [exc |-> e, val |-> Zero]

sensitivity_5_percent == Rat(1, 20)

sensitivity == Rat(1, 10)

maxdigits == 2

\* the loop returning the rejected candidate instead of the last one kept
RECURSIVE concise_round_loop_returns_cand(_, _, _)
concise_round_loop_returns_cand(x, res, digits) ==
    IF digits >= 0
    THEN IF x = Zero
         THEN Raise("ZeroDivisionError")
         ELSE LET cand == round(x, digits)
                  change == RAbs(RSub(One, RDiv(cand, x)))
              IN  IF RLess(sensitivity, change)
                  THEN Ok(cand)
                  ELSE concise_round_loop_returns_cand(x, cand, digits - 1)
    ELSE IF IsInteger(res)
         THEN Ok(res)
         ELSE Raise("Exception")

\* the while loop, entered with the candidate kept so far and the digits to try
RECURSIVE concise_round_loop(_, _, _)
concise_round_loop(x, res, digits) ==
    IF digits >= 0
    THEN IF x = Zero
         THEN Raise("ZeroDivisionError")
         ELSE LET cand == round(x, digits)
                  change == RAbs(RSub(One, RDiv(cand, x)))
              IN  IF RLess(sensitivity, change)
                  THEN Ok(res)
                  ELSE concise_round_loop(x, cand, digits - 1)
    ELSE IF IsInteger(res)
         THEN Ok(res)
         ELSE Raise("Exception")

concise_round(x) == concise_round_loop(x, x, maxdigits)

-----------------------------------------------------------------------------
(* nodestats_test.py: the rounding table, (input, expected).               *)

testdata ==
    { <<Rat(4801, 100), Rat(48, 1)>>,  <<Rat(1716, 100), Rat(17, 1)>>,
      <<Rat(105, 10),   Rat(10, 1)>>,  <<Rat(908, 100),  Rat(9, 1)>>,
      <<Rat(772, 100),  Rat(8, 1)>>,   <<Rat(598, 100),  Rat(6, 1)>>,
      <<Rat(528, 100),  Rat(5, 1)>>,   <<Rat(488, 100),  Rat(5, 1)>>,
      <<Rat(425, 100),  Rat(4, 1)>>,   <<Rat(242, 100),  Rat(24, 10)>>,
      <<Rat(217, 100),  Rat(2, 1)>>,   <<Rat(203, 100),  Rat(2, 1)>>,
      <<Rat(19, 10),    Rat(2, 1)>>,   <<Rat(18, 10),    Rat(18, 10)>>,
      <<Rat(145, 100),  Rat(14, 10)>>, <<Rat(142, 100),  Rat(14, 10)>>,
      <<Rat(141, 100),  Rat(14, 10)>>, <<Rat(9, 10),     Rat(9, 10)>>,
      <<Rat(46, 100),   Rat(5, 10)>>,  <<Rat(36, 100),   Rat(36, 100)>> }

\* the arguments concise_round is tried on
RoundInputs ==
    { Rat(n, Pow10(InputDigits)) : n \in 0 .. MaxInput * Pow10(InputDigits) }
    \cup { t[1] : t \in testdata }

NoStats == [group_stats |-> <<>>, untracked_ratio |-> Zero]

\* the variables of main() while only a function is exercised
MainIdle ==
    /\ pc = "idle"
    /\ exc = "none"
    /\ dcrfarm_data = <<>>
    /\ ua_stats = <<>>
    /\ daily_mean_sum = Zero
    /\ tracked_ua_groups = <<>>
    /\ ua_to_group = <<>>
    /\ stats = NoStats
    /\ output = <<>>

\* no datetime
None == <<>>

\* the month of main() is not being worked out
MonthIdle ==
    /\ now = None
    /\ args_month = None
    /\ mdate = None
    /\ start_date = None
    /\ end_date = None

monthVars == <<now, args_month, mdate, start_date, end_date>>

mainVars == <<pc, exc, dcrfarm_data, ua_stats, daily_mean_sum, tracked_ua_groups,
              ua_to_group, stats, output>>

NotCalled == [exc |-> "not called", val |-> <<>>]

InitRound ==
    /\ MainIdle
    /\ MonthIdle
    /\ f \in RoundInputs
    /\ results = <<>>
    /\ md = <<>>
    /\ inverse = NotCalled

\* concise_round(f)
ConciseRound ==
    /\ results = <<>>
    /\ results' = <<concise_round(f)>>
    /\ UNCHANGED <<mainVars, monthVars, f, md, inverse>>

\* concise_round applied to the value the previous call returned
ConciseRoundAgain ==
    /\ results # <<>>
    /\ Len(results) < MaxCalls
    /\ results[Len(results)].exc = "none"
    /\ results' = Append(results, concise_round(results[Len(results)].val))
    /\ UNCHANGED <<mainVars, monthVars, f, md, inverse>>

NextRound == ConciseRound \/ ConciseRoundAgain

SpecRound == InitRound /\ [][NextRound]_vars

-----------------------------------------------------------------------------
(* inverse_multidict.  A dict is the sequence of its (key, value) items in *)
(* insertion order, the keys distinct; the result is a function from       *)
(* elements to keys, or the ValueError naming the duplicate element.       *)

\* md.items() flattened by the two for loops: the (e, k) in the order visited
RECURSIVE Visited(_)
Visited(d) ==
    IF d = <<>> THEN <<>>
    ELSE LET k == Head(d)[1]
             v == Head(d)[2]
         IN  [i \in 1 .. Len(v) |-> <<v[i], k>>] \o Visited(Tail(d))

\* the loops with the check comparing the keys: a repeat within one list passes
RECURSIVE inverse_multidict_loop_other_key_only(_, _)
inverse_multidict_loop_other_key_only(todo, inv) ==
    IF todo = <<>> THEN Ok(inv)
    ELSE LET e == Head(todo)[1]
             k == Head(todo)[2]
         IN  IF e \in DOMAIN inv /\ inv[e] # k
             THEN Raise("ValueError")
             ELSE inverse_multidict_loop_other_key_only(
                      Tail(todo), [x \in DOMAIN inv \cup {e} |->
                                      IF x = e THEN k ELSE inv[x]])

RECURSIVE inverse_multidict_loop(_, _)
inverse_multidict_loop(todo, inv) ==
    IF todo = <<>> THEN Ok(inv)
    ELSE LET e == Head(todo)[1]
             k == Head(todo)[2]
         IN  IF e \in DOMAIN inv
             THEN [exc |-> "ValueError", val |-> e]
             ELSE inverse_multidict_loop(
                      Tail(todo), [x \in DOMAIN inv \cup {e} |->
                                      IF x = e THEN k ELSE inv[x]])

inverse_multidict(d) == inverse_multidict_loop(Visited(d), <<>>)

\* the lists of at most n elements of the set S
Lists(S, n) == UNION { [1 .. m -> S] : m \in 0 .. n }

\* the keys of the dicts inverse_multidict is tried on
MdKeys == { GNames[i] : i \in 1 .. 3 }

\* the dict built from n keys and n lists
Dict(ks, vs) == [i \in 1 .. Len(ks) |-> <<ks[i], vs[i]>>]

\* inverse_multidict is tried on every dict of at most MaxGroups distinct keys
\* among MdKeys, in any order, with lists of at most MaxMembers user agents
InitInverse ==
    /\ MainIdle
    /\ MonthIdle
    /\ f = Zero
    /\ results = <<>>
    /\ \E n \in 0 .. MaxGroups :
          \E ks \in [1 .. n -> MdKeys] :
             \E vs \in [1 .. n -> Lists(Range(UAs), MaxMembers)] :
                /\ \A i, j \in 1 .. n : i # j => ks[i] # ks[j]
                /\ md = Dict(ks, vs)
    /\ inverse = NotCalled

\* inverse_multidict(md)
InverseMultidict ==
    /\ inverse = NotCalled
    /\ inverse' = inverse_multidict(md)
    /\ UNCHANGED <<mainVars, monthVars, f, results, md>>

NextInverse == InverseMultidict

SpecInverse == InitInverse /\ [][NextInverse]_vars

-----------------------------------------------------------------------------
(* calc_node_stats.  The response is the list                              *)
(* dcrfarm_data["results"][0]["series"]; a series is its useragent_tag and *)
(* its values, a list of (time, count).                                    *)

RECURSIVE Sum(_)
Sum(ns) == IF ns = <<>> THEN 0 ELSE Head(ns) + Sum(Tail(ns))

RECURSIVE RSum(_)
RSum(rs) == IF rs = <<>> THEN Zero ELSE RAdd(Head(rs), RSum(Tail(rs)))

get_count(v) == v[2]

\* statistics.mean of a non-empty list
mean(ns) == Rat(Sum(ns), Len(ns))

calc_node_stats(data) ==
    LET daily_counts(i) ==
            [j \in 1 .. Len(data[i].values) |-> get_count(data[i].values[j])]
        daily_mean(i) == mean(daily_counts(i))
        sum == RSum([i \in 1 .. Len(data) |-> daily_mean(i)])
    IN  IF \E i \in 1 .. Len(data) : data[i].values = <<>>
        THEN [exc |-> "StatisticsError", ua_stats |-> <<>>,
              daily_mean_sum |-> Zero]
        ELSE IF data # <<>> /\ sum = Zero
        THEN [exc |-> "ZeroDivisionError", ua_stats |-> <<>>,
              daily_mean_sum |-> Zero]
        ELSE [exc |-> "none",
              ua_stats |-> [i \in 1 .. Len(data) |->
                              <<data[i].useragent_tag, daily_mean(i),
                                RDiv(daily_mean(i), sum)>>],
              daily_mean_sum |-> sum]

-----------------------------------------------------------------------------
(* calc_node_group_stats.                                                  *)

\* ua_to_group.get(ua), and the test "if gname:" on it: None and "" are false
Truthy(lookup, ua) == ua \in DOMAIN lookup /\ lookup[ua] # ""

\* grouped_stats after the loop over ua_stats: the (gname, gstats) in the order
\* the groups were first met
RECURSIVE Grouped(_, _, _)
Grouped(todo, lookup, acc) ==
    IF todo = <<>> THEN acc
    ELSE LET uas == Head(todo)
             gname == lookup[uas[1]]
             at == { i \in 1 .. Len(acc) : acc[i][1] = gname }
         IN  IF ~Truthy(lookup, uas[1])
             THEN Grouped(Tail(todo), lookup, acc)
             ELSE IF at = {}
             THEN Grouped(Tail(todo), lookup, Append(acc, <<gname, <<uas>>>>))
             ELSE Grouped(Tail(todo), lookup,
                          [i \in 1 .. Len(acc) |->
                              IF i \in at
                              THEN <<gname, Append(acc[i][2], uas)>>
                              ELSE acc[i]])

get_mean(uas) == uas[2]

GroupStats(gname, gstats, total) ==
    LET gdaily_mean_sum == RSum([i \in 1 .. Len(gstats) |-> get_mean(gstats[i])])
    IN  [name |-> gname,
         avg_nodes |-> gdaily_mean_sum,
         avg_nodes_ratio |-> RDiv(gdaily_mean_sum, total),
         stats |-> gstats]

\* sorted(group_stats, key = get_ratio, reverse = True): stable, so the groups
\* of one ratio stay in the order they had
RECURSIVE sorted_by_ratio(_)
sorted_by_ratio(gs) ==
    IF gs = <<>> THEN <<>>
    ELSE LET n == Len(gs)
             before == sorted_by_ratio(SubSeq(gs, 1, n - 1))
             x == gs[n]
             keep == { i \in 1 .. Len(before) :
                         RLeq(x.avg_nodes_ratio, before[i].avg_nodes_ratio) }
             k == Cardinality(keep)
         IN  SubSeq(before, 1, k) \o <<x>> \o SubSeq(before, k + 1, Len(before))

\* the loop "tracked_ratio += gdaily_ratio" keeping the last group only
tracked_ratio_last_only(group_stats) ==
    IF group_stats = <<>> THEN Zero
    ELSE group_stats[Len(group_stats)].avg_nodes_ratio

tracked_ratio(group_stats) ==
    RSum([i \in 1 .. Len(group_stats) |-> group_stats[i].avg_nodes_ratio])

\* the part of calc_node_group_stats after the lookup is built
Stats(uastats, total, lookup) ==
    LET grouped_stats == Grouped(uastats, lookup, <<>>)
        group_stats == [i \in 1 .. Len(grouped_stats) |->
                           GroupStats(grouped_stats[i][1], grouped_stats[i][2],
                                      total)]
    IN  [group_stats |-> sorted_by_ratio(group_stats),
         untracked_ratio |-> RSub(One, tracked_ratio(group_stats))]

-----------------------------------------------------------------------------
(* print_node_stats: the line is the list of its entries, each a percent   *)
(* and a name; the last one is the untracked remainder, "others.".         *)

\* "sub in s" of two strings
In(sub, s) ==
    \E i \in 1 .. Len(s) - Len(sub) + 1 : SubSeq(s, i, i + Len(sub) - 1) = sub

\* fmt_percent, without the "%": the value whose str() is printed
fmt_percent(x) == concise_round(RMul(x, Rat(100, 1)))

RECURSIVE SelectFamily(_, _)
SelectFamily(gs, marker) ==
    IF gs = <<>> THEN <<>>
    ELSE IF In(marker, Head(gs).name)
    THEN <<Head(gs)>> \o SelectFamily(Tail(gs), marker)
    ELSE SelectFamily(Tail(gs), marker)

\* the entries in the order of the line, each with the result of its fmt_percent
Entries(st) ==
    LET listed == SelectFamily(st.group_stats, "dcrd")
                  \o SelectFamily(st.group_stats, "dcrwallet")
    IN  [i \in 1 .. Len(listed) |->
            [percent |-> fmt_percent(listed[i].avg_nodes_ratio),
             name |-> listed[i].name]]
        \o <<[percent |-> fmt_percent(st.untracked_ratio), name |-> "others."]>>

print_node_stats(st) ==
    LET es == Entries(st)
        failed == { i \in 1 .. Len(es) : es[i].percent.exc # "none" }
    IN  IF failed # {}
        THEN [exc |-> es[CHOOSE i \in failed : \A j \in failed : i <= j].percent.exc,
              output |-> <<>>]
        ELSE [exc |-> "none",
              output |-> [i \in 1 .. Len(es) |->
                            [percent |-> es[i].percent.val, name |-> es[i].name]]]

-----------------------------------------------------------------------------
(* main(), reading the response from a file or from the API, without -u.   *)

\* the lists of at most MaxDays daily counts, as (time, count)
Values ==
    { [j \in 1 .. Len(c) |-> <<j, c[j]>>] : c \in Lists(0 .. MaxCount, MaxDays) }

\* the indexes of a set, ascending
RECURSIVE Ascending(_)
Ascending(S) ==
    IF S = {} THEN <<>>
    ELSE LET m == CHOOSE x \in S : \A y \in S : x <= y
         IN  <<m>> \o Ascending(S \ {m})

\* the response: one series for each user agent seen, in the order of the tags
InitMain ==
    /\ pc = "start"
    /\ exc = "none"
    /\ MonthIdle
    /\ \E S \in SUBSET (1 .. Len(UAs)) :
          \E vals \in [S -> Values] :
             dcrfarm_data =
                 LET order == Ascending(S)
                 IN  [i \in 1 .. Len(order) |->
                        [useragent_tag |-> UAs[order[i]],
                         values |-> vals[order[i]]]]
    /\ ua_stats = <<>>
    /\ daily_mean_sum = Zero
    /\ tracked_ua_groups = <<>>
    /\ ua_to_group = <<>>
    /\ stats = NoStats
    /\ output = <<>>
    /\ f = Zero
    /\ results = <<>>
    /\ md = <<>>
    /\ inverse = NotCalled

\* ua_stats, daily_mean_sum = calc_node_stats(dcrfarm_data).  main() does not
\* read the response again: it leaves the state here.
CalcNodeStats ==
    /\ pc = "start"
    /\ LET r == calc_node_stats(dcrfarm_data)
       IN  /\ exc' = r.exc
           /\ ua_stats' = r.ua_stats
           /\ daily_mean_sum' = r.daily_mean_sum
    /\ pc' = "calc_node_stats"
    /\ dcrfarm_data' = <<>>
    /\ UNCHANGED <<tracked_ua_groups, ua_to_group, stats, output,
                   f, results, md, inverse, monthVars>>

\* the group definition of a file that gives each user agent of S one group
FileOf(S, a) ==
    LET named == { g \in 1 .. Len(GNames) : \E u \in S : a[u] = g }
        order == Ascending(named)
    IN  [i \in 1 .. Len(order) |->
            <<GNames[order[i]],
              LET us == Ascending({ u \in S : a[u] = order[i] })
              IN  [j \in 1 .. Len(us) |-> UAs[us[j]]]>>]

\* a file that lists one user agent in two groups
DuplicateFile ==
    <<<<GNames[1], <<UAs[1]>>>>, <<GNames[2], <<UAs[2], UAs[1]>>>>>>

\* calc_node_group_stats once the file is loaded
GroupStatsFrom(file) ==
    LET lookup == inverse_multidict(file)
    IN  /\ tracked_ua_groups' = file
        /\ exc' = lookup.exc
        /\ IF lookup.exc = "none"
           THEN /\ ua_to_group' = lookup.val
                /\ stats' = Stats(ua_stats, daily_mean_sum, lookup.val)
           ELSE UNCHANGED <<ua_to_group, stats>>

\* stats = calc_node_group_stats(ua_stats, daily_mean_sum), with the file
\* user-agents-tracked.json as it is found
CalcNodeGroupStats ==
    /\ pc = "calc_node_stats"
    /\ exc = "none"
    /\ pc' = "calc_node_group_stats"
    /\ \/ /\ exc' = "Exception"          \* file not found
          /\ UNCHANGED <<tracked_ua_groups, ua_to_group, stats>>
       \/ \E S \in SUBSET (1 .. Len(UAs)) :
             \E a \in [S -> 1 .. Len(GNames)] : GroupStatsFrom(FileOf(S, a))
       \/ GroupStatsFrom(DuplicateFile)
    /\ UNCHANGED <<dcrfarm_data, ua_stats, daily_mean_sum, output,
                   f, results, md, inverse, monthVars>>

\* print_node_stats(stats, start_date)
PrintNodeStats ==
    /\ pc = "calc_node_group_stats"
    /\ exc = "none"
    /\ pc' = "print_node_stats"
    /\ LET r == print_node_stats(stats)
       IN  /\ exc' = r.exc
           /\ output' = r.output
    /\ UNCHANGED <<dcrfarm_data, ua_stats, daily_mean_sum, tracked_ua_groups,
                   ua_to_group, stats, f, results, md, inverse, monthVars>>

Next == CalcNodeStats \/ CalcNodeGroupStats \/ PrintNodeStats

Spec == InitMain /\ [][Next]_vars

-----------------------------------------------------------------------------
(* The month to report.  A datetime is [year, month, day, hour]: the rest  *)
(* of the time of day is carried along as the hour is.  main() works out   *)
(* the month before it loads the response.                                 *)

\* the current date is any day of MaxYears years from FirstYear on, one of
\* them a leap year, at any of the hours 0 .. MaxHour
MaxYears == 2
MaxHour == 1
FirstYear == 2023

Years == FirstYear .. FirstYear + MaxYears - 1

\* the days of a month, as datetime counts them
is_leap(year) == year % 4 = 0 /\ (year % 100 # 0 \/ year % 400 = 0)

days_in_month(year, month) ==
    IF month = 2 THEN (IF is_leap(year) THEN 29 ELSE 28)
    ELSE IF month \in {4, 6, 9, 11} THEN 30 ELSE 31

datetime(year, month, day, hour) ==
    [year |-> year, month |-> month, day |-> day, hour |-> hour]

\* dt.replace(year = year, month = month): the other fields are kept, and the
\* new date is validated
replace(dt, year, month) ==
    IF dt.day <= days_in_month(year, month)
    THEN Ok(datetime(year, month, dt.day, dt.hour))
    ELSE Raise("ValueError")            \* day is out of range for month

inc_month(dt) ==
    IF dt.month < 12
    THEN replace(dt, dt.year, dt.month + 1)
    ELSE replace(dt, dt.year + 1, 1)

dec_month(dt) ==
    IF dt.month > 1
    THEN replace(dt, dt.year, dt.month - 1)
    ELSE replace(dt, dt.year - 1, 12)

\* (start, end): the start of dt's month and the start of the next month
month_interval(dt) ==
    LET start == datetime(dt.year, dt.month, 1, 0)
        end == inc_month(start)
    IN  IF end.exc = "none" THEN Ok(<<start, end.val>>) ELSE Raise(end.exc)

\* datetime.strptime(args.month, "%Y%m"): the first day of the month, at 0:00
strptime(ym) == datetime(ym[1], ym[2], 1, 0)

\* main() after parse_args: the clock reads any date, and -m is absent or
\* names any month
InitMonth ==
    /\ pc = "parse_args"
    /\ exc = "none"
    /\ dcrfarm_data = <<>>
    /\ ua_stats = <<>>
    /\ daily_mean_sum = Zero
    /\ tracked_ua_groups = <<>>
    /\ ua_to_group = <<>>
    /\ stats = NoStats
    /\ output = <<>>
    /\ f = Zero
    /\ results = <<>>
    /\ md = <<>>
    /\ inverse = NotCalled
    /\ \E y \in Years, m \in 1 .. 12 :
          \E d \in 1 .. days_in_month(y, m), h \in 0 .. MaxHour :
             now = datetime(y, m, d, h)
    /\ \/ args_month = None
       \/ \E y \in Years, m \in 1 .. 12 : args_month = <<y, m>>
    /\ mdate = None
    /\ start_date = None
    /\ end_date = None

\* if args.month: mdate = strptime(...) else: mdate = dec_month(now)
MonthDate ==
    /\ pc = "parse_args"
    /\ pc' = "mdate"
    /\ \/ /\ args_month # None
          /\ mdate' = strptime(args_month)
          /\ exc' = "none"
       \/ /\ args_month = None
          /\ LET r == dec_month(now)
             IN  /\ exc' = r.exc
                 /\ mdate' = IF r.exc = "none" THEN r.val ELSE None
    /\ UNCHANGED <<dcrfarm_data, ua_stats, daily_mean_sum, tracked_ua_groups,
                   ua_to_group, stats, output, f, results, md, inverse,
                   now, args_month, start_date, end_date>>

\* start_date, end_date = month_interval(mdate)
MonthInterval ==
    /\ pc = "mdate"
    /\ exc = "none"
    /\ pc' = "month_interval"
    /\ LET r == month_interval(mdate)
       IN  /\ exc' = r.exc
           /\ start_date' = IF r.exc = "none" THEN r.val[1] ELSE None
           /\ end_date' = IF r.exc = "none" THEN r.val[2] ELSE None
    /\ UNCHANGED <<dcrfarm_data, ua_stats, daily_mean_sum, tracked_ua_groups,
                   ua_to_group, stats, output, f, results, md, inverse,
                   now, args_month, mdate>>

NextMonth == MonthDate \/ MonthInterval

SpecMonth == InitMonth /\ [][NextMonth]_vars

-----------------------------------------------------------------------------
(* Properties of concise_round, checked under SpecRound.                   *)

Tenth == Rat(1, 10)
Five == Rat(5, 1)

\* abs(1 - r/x) <= 0.10, for x # 0
Within10(r, x) == RLeq(RAbs(RSub(One, RDiv(r, x))), Tenth)

\* the number of decimal digits of a decimal fraction
RECURSIVE NDigits(_)
NDigits(r) == IF IsInteger(r) THEN 0 ELSE 1 + NDigits(RMul(r, Rat(10, 1)))

HasAtMostTwoDecimals(x) == 100 % x[2] = 0

Returned(i) == Len(results) >= i /\ results[i].exc = "none"

\* C2 as stated: concise_round(concise_round(x)) == concise_round(x) for every
\* non-negative x on which concise_round returns.
C2_Idempotent ==
    (Returned(1) /\ Len(results) >= 2) => results[2] = results[1]

\* C2 amended: concise_round(concise_round(x)) == concise_round(x) for every
\* x >= 5; for smaller x a second call may remove one more digit
\* (1.12 -> 1.1 -> 1), and a third call changes nothing any more.
C2_IdempotentFromFive ==
    /\ (Len(results) >= 2 /\ RLeq(Five, f)) => results[2] = results[1]
    /\ Len(results) >= 3 => results[3] = results[2]

\* C2's case: a non-integer x >= 5 rounded, and rounded again to the same value.
C2_Witness ==
    /\ RLeq(Five, f) /\ ~IsInteger(f)
    /\ Len(results) >= 3 /\ Returned(2) /\ results[2] = results[1]

\* C3 as stated: concise_round(0) returns 0, with no division by zero.
C3_ZeroReturnsZero ==
    (f = Zero /\ results # <<>>) => results[1] = Ok(Zero)

\* C4: for every positive f the result r of concise_round(f) is within 10% of
\* f, and no rounding of f to fewer decimal digits (among 2, 1, 0) than r has
\* is within 10% of f.
C4_RoundestWithinTolerance ==
    (results # <<>> /\ RLess(Zero, f)) =>
        /\ results[1].exc = "none"
        /\ Within10(results[1].val, f)
        /\ \A d \in 0 .. 2 :
              d < NDigits(results[1].val) => ~Within10(round(f, d), f)

\* C4's case: a rounding that stops at one decimal digit (2.42 -> 2.4).
C4_Witness ==
    /\ f = Rat(242, 100)
    /\ results # <<>> /\ results[1] = Ok(Rat(24, 10))

\* the reference procedure of C5 over a rounding rnd: round to 2, then 1, then
\* 0 digits, keep each candidate while it is within 10% of x, return the last
\* one kept (x itself when none is)
Reference(x, rnd(_, _)) ==
    LET kept == { d \in 0 .. 2 : \A e \in d .. 2 : Within10(rnd(x, e), x) }
    IN  IF kept = {} THEN x
        ELSE rnd(x, CHOOSE d \in kept : \A e \in kept : d <= e)

TableHolds ==
    \A t \in testdata : (f = t[1] /\ results # <<>>) => results[1] = Ok(t[2])

\* C5 as stated: on every positive input with at most two decimal digits
\* concise_round equals the reference procedure with half-to-even rounding of
\* the decimal, and the rounding table holds.
C5_EqualsDecimalHalfEven ==
    /\ (results # <<>> /\ RLess(Zero, f) /\ HasAtMostTwoDecimals(f)) =>
            results[1] = Ok(Reference(f, round_decimal))
    /\ TableHolds

\* C5 amended: on every positive input with at most two decimal digits
\* concise_round equals the reference procedure in which each rounding is the
\* decimal nearest to the input's double, a tie going to even only when the
\* double itself is halfway (10.5 -> 10); a decimal tie that is no double goes
\* to the side of its double (1.15 -> 1.1, 2.45 -> 2.5).  The table holds.
C5_EqualsReference ==
    /\ (results # <<>> /\ RLess(Zero, f) /\ HasAtMostTwoDecimals(f)) =>
            results[1] = Ok(Reference(f, round))
    /\ TableHolds

\* C5's case: the decimal tie 1.15, rounded to the side of its double.
C5_Witness ==
    /\ f = Rat(115, 100)
    /\ results # <<>> /\ results[1] = Ok(Rat(11, 10))

-----------------------------------------------------------------------------
(* Properties of inverse_multidict, checked under SpecInverse.             *)

\* the places (i, j) of the lists of a dict
Places(d) == { <<i, j>> : i \in 1 .. Len(d), j \in 1 .. MaxMembers + 1 } \cap
             { p \in (1 .. Len(d)) \X (1 .. MaxMembers + 1) :
                 p[2] <= Len(d[p[1]][2]) }

At(d, p) == d[p[1]][2][p[2]]

\* some member string appears in two or more groups
InTwoGroups(d) ==
    \E p, q \in Places(d) : p[1] # q[1] /\ At(d, p) = At(d, q)

\* some member string appears at two places, of one list or of two
Repeated(d) ==
    \E p, q \in Places(d) : p # q /\ At(d, p) = At(d, q)

\* every (member, group) pair is found in the inverted lookup
RoundTrips(d, inv) ==
    \A p \in Places(d) : At(d, p) \in DOMAIN inv /\ inv[At(d, p)] = d[p[1]][1]

\* C1 as stated: inverse_multidict raises when and only when some member
\* string appears in two or more groups; otherwise every (member, group) pair
\* round-trips through the result.
C1_RaisesIffInTwoGroups ==
    inverse.exc # "not called" =>
        /\ inverse.exc = "ValueError" <=> InTwoGroups(md)
        /\ inverse.exc = "none" => RoundTrips(md, inverse.val)

\* C1 amended: inverse_multidict raises when and only when some member string
\* appears more than once in the lists, in two groups or twice in the list of
\* one group; otherwise every (member, group) pair round-trips through the
\* result.
C1_RaisesIffRepeated ==
    inverse.exc # "not called" =>
        /\ inverse.exc = "ValueError" <=> Repeated(md)
        /\ inverse.exc = "none" => RoundTrips(md, inverse.val)

\* C1's case: a string listed twice by one group and by no other: the call
\* raised.
C1_Witness ==
    /\ Repeated(md) /\ ~InTwoGroups(md)
    /\ inverse.exc = "ValueError"

-----------------------------------------------------------------------------
(* Properties of the pipeline, checked under Spec.                         *)

Returned_calc_node_stats == pc = "calc_node_stats" /\ exc = "none"
Returned_calc_node_group_stats == pc = "calc_node_group_stats" /\ exc = "none"

\* C6 as stated: for every input in which each user agent has a non-empty
\* sequence of daily counts, the ratios calc_node_stats returns sum to 1 and
\* each lies in [0, 1].
C6_RatiosSumToOne ==
    Returned_calc_node_stats =>
        /\ RSum([i \in 1 .. Len(ua_stats) |-> ua_stats[i][3]]) = One
        /\ \A i \in 1 .. Len(ua_stats) :
              RLeq(Zero, ua_stats[i][3]) /\ RLeq(ua_stats[i][3], One)

\* C7: calc_node_group_stats returns untracked_ratio = 1 - (the sum of all
\* group ratios), so that tracked and untracked ratio add up to 1, and
\* untracked_ratio >= 0.
C7_UntrackedIsRemainder ==
    Returned_calc_node_group_stats =>
        LET gs == stats.group_stats
            tracked == RSum([i \in 1 .. Len(gs) |-> gs[i].avg_nodes_ratio])
        IN  /\ stats.untracked_ratio = RSub(One, tracked)
            /\ RAdd(tracked, stats.untracked_ratio) = One
            /\ RLeq(Zero, stats.untracked_ratio)

\* C7's case: two groups and an untracked remainder.
C7_Witness ==
    /\ Returned_calc_node_group_stats
    /\ Len(stats.group_stats) >= 2
    /\ RLess(Zero, stats.untracked_ratio)

\* C8 as stated: calc_node_stats fails whenever some user agent has no
\* observations, and no report is produced whenever the sum of the means is
\* zero, the response without any series included.
C8_DegenerateInputRejected ==
    [][ /\ (pc = "start" /\ \E i \in 1 .. Len(dcrfarm_data) :
                                dcrfarm_data[i].values = <<>>)
            => (exc' = "StatisticsError" /\ ua_stats' = <<>>)
        /\ output' # <<>> => daily_mean_sum' # Zero ]_vars

\* the groups of stats a statistic of ua_stats is a member of
GroupsOf(uas) ==
    { g \in 1 .. Len(stats.group_stats) :
        \E m \in 1 .. Len(stats.group_stats[g].stats) :
           stats.group_stats[g].stats[m] = uas }

\* C9 as stated: every statistic whose user agent has an entry in the lookup
\* is a member of exactly the group the entry names, every other one of no
\* group, whatever the group names; a group's avg_nodes is the sum of its
\* members' means and its ratio that sum divided by the sum of all means.
C9_MembersFollowLookup ==
    Returned_calc_node_group_stats =>
        /\ \A i \in 1 .. Len(ua_stats) :
              IF ua_stats[i][1] \in DOMAIN ua_to_group
              THEN /\ GroupsOf(ua_stats[i]) # {}
                   /\ \A g \in GroupsOf(ua_stats[i]) :
                         stats.group_stats[g].name = ua_to_group[ua_stats[i][1]]
                   /\ Cardinality(GroupsOf(ua_stats[i])) = 1
              ELSE GroupsOf(ua_stats[i]) = {}
        /\ \A g \in 1 .. Len(stats.group_stats) :
              LET gs == stats.group_stats[g]
                  total == RSum([m \in 1 .. Len(gs.stats) |-> gs.stats[m][2]])
              IN  /\ gs.avg_nodes = total
                  /\ gs.avg_nodes_ratio = RDiv(total, daily_mean_sum)

\* the ratio of the group of a name
RatioOf(name) ==
    LET g == CHOOSE i \in 1 .. Len(stats.group_stats) :
                 stats.group_stats[i].name = name
    IN  stats.group_stats[g].avg_nodes_ratio

\* a part of the line lists the groups whose name contains the marker, each
\* once, in non-increasing order of ratio, with the percent of its ratio
ListsFamily(part, marker) ==
    /\ { part[i].name : i \in 1 .. Len(part) } =
       { stats.group_stats[g].name : g \in
            { h \in 1 .. Len(stats.group_stats) :
                In(marker, stats.group_stats[h].name) } }
    /\ \A i, j \in 1 .. Len(part) :
          /\ i # j => part[i].name # part[j].name
          /\ i < j => RLeq(RatioOf(part[j].name), RatioOf(part[i].name))
    /\ \A i \in 1 .. Len(part) :
          Ok(part[i].percent) = fmt_percent(RatioOf(part[i].name))

\* C10 as stated: print_node_stats renders every ReportStats (every ratio in
\* [0, 1]): first the groups whose name contains "dcrd", in non-increasing
\* order of ratio, then those whose name contains "dcrwallet", likewise, then
\* the untracked remainder as the last entry; no other group is listed.
C10_ReportRendered ==
    pc = "print_node_stats" =>
        /\ exc = "none"
        /\ output # <<>>
        /\ \E k \in 0 .. Len(output) - 1 :
              /\ ListsFamily(SubSeq(output, 1, k), "dcrd")
              /\ ListsFamily(SubSeq(output, k + 1, Len(output) - 1), "dcrwallet")
        /\ output[Len(output)].name = "others."
        /\ Ok(output[Len(output)].percent) = fmt_percent(stats.untracked_ratio)


-----------------------------------------------------------------------------
(* Properties of the month to report, checked under SpecMonth.             *)

\* the month before the month of dt, as <<year, month>>
PreviousMonth(dt) ==
    IF dt.month > 1 THEN <<dt.year, dt.month - 1>> ELSE <<dt.year - 1, 12>>

IsValidDate(dt) ==
    /\ dt # None
    /\ dt.month \in 1 .. 12
    /\ dt.day \in 1 .. days_in_month(dt.year, dt.month)

\* C11: when no month is given on the command line, main reports the previous
\* calendar month whatever the current date is: dec_month returns, without
\* raising, a valid datetime of the month before, and month_interval then
\* gives the interval from the first day of that month to the first day of
\* the month after it, which is the first day of the current month.
C11_PreviousMonthForEveryDate ==
    args_month = None =>
        /\ pc \in {"mdate", "month_interval"} =>
              /\ exc = "none"
              /\ IsValidDate(mdate)
              /\ <<mdate.year, mdate.month>> = PreviousMonth(now)
        /\ pc = "month_interval" =>
              /\ start_date =
                    datetime(PreviousMonth(now)[1], PreviousMonth(now)[2], 1, 0)
              /\ end_date = datetime(now.year, now.month, 1, 0)

====
